---- MODULE Spec2Model ----
(***************************************************************************)
(* OSC address patterns (rosc, src/address.rs): Matcher::new compiles an   *)
(* address pattern into one regular expression per '/'-delimited part, and *)
(* Matcher::match_message splits a message address into parts and searches *)
(* each part with the regular expression of the same index.                *)
(*                                                                         *)
(* A string is a sequence of one-character strings.  The nom combinators   *)
(* are operators returning [ok, rest, out]; the regular expressions are    *)
(* the strings the compiler builds, parsed and searched with the syntax    *)
(* and the unanchored search of the regex crate.                           *)
(***************************************************************************)
EXTENDS Integers, Sequences, FiniteSets, TLC

VARIABLES pattern, addr, matcher, matcher2, result, calls

vars == <<pattern, addr, matcher, matcher2, result, calls>>

(***************************************************************************)
(* Characters                                                              *)
(***************************************************************************)

\* The printable ASCII characters; Ascii[i] has code i + 31 (the grave accent,
\* code 96, is spelled out: it is used by no string of the model).
Ascii ==
    << " ", "!", "\"", "#", "$", "%", "&", "'", "(", ")", "*", "+", ",", "-", ".", "/",
       "0", "1", "2", "3", "4", "5", "6", "7", "8", "9", ":", ";", "<", "=", ">", "?",
       "@", "A", "B", "C", "D", "E", "F", "G", "H", "I", "J", "K", "L", "M", "N", "O",
       "P", "Q", "R", "S", "T", "U", "V", "W", "X", "Y", "Z", "[", "\\", "]", "^", "_",
       "grave", "a", "b", "c", "d", "e", "f", "g", "h", "i", "j", "k", "l", "m", "n", "o",
       "p", "q", "r", "s", "t", "u", "v", "w", "x", "y", "z", "{", "|", "}", "~" >>

\* The code point of a character.
Code(c) ==
    CASE c = "\t" -> 9
      [] c = "\n" -> 10
      [] c = "\r" -> 13
      [] OTHER -> 31 + (CHOOSE i \in 1..Len(Ascii) : Ascii[i] = c)

\* The code ranges of the class \w of the regex crate, restricted to ASCII.
WordRanges == { <<48, 57>>, <<65, 90>>, <<95, 95>>, <<97, 122>> }

InRanges(c, ranges) == \E r \in ranges : r[1] <= Code(c) /\ Code(c) <= r[2]

IsWord(c) == InRanges(c, WordRanges)

\* The characters the documentation of match_message lists.
AddressStopDocumented == {"#", "*", ",", "/", "?", "[", "]", "{", "}"}

\* The characters at which take_till1 ends an address part.
AddressStop == {" ", "\t", "\r", "\n", "#", "*", ",", "/", "?", "[", "]", "{", "}"}

\* A pattern part that ends at a separator only.
PatternStopSlash == {"/"}

\* The characters at which take_till1 ends a pattern part.
PatternStop == {" ", "\n", "\t", "\r", "/"}

(***************************************************************************)
(* nom combinators                                                         *)
(***************************************************************************)

Err == [ok |-> FALSE, rest |-> <<>>, out |-> <<>>]

Ok(rest, out) == [ok |-> TRUE, rest |-> rest, out |-> out]

Drop(s, n) == SubSeq(s, n + 1, Len(s))

Take(s, n) == SubSeq(s, 1, n)

\* The length of the longest prefix of s with no character of stop.
RunLen(s, stop) ==
    IF \E i \in 1..Len(s) : s[i] \in stop
    THEN (CHOOSE i \in 1..Len(s) : s[i] \in stop /\ \A j \in 1..(i - 1) : s[j] \notin stop) - 1
    ELSE Len(s)

\* The first n characters of the input, an error when there are none.
TakeRun(input, n) == IF n = 0 THEN Err ELSE Ok(Drop(input, n), Take(input, n))

\* take_till1(|c| stop.contains(c)): a non-empty run up to a character of stop.
take_till1(input, stop) == TakeRun(input, RunLen(input, stop))

\* is_not(stop): a non-empty run of characters not in stop.
is_not(input, stop) == TakeRun(input, RunLen(input, stop))

\* tag(t) and char(c): the input starts with t.
tag(input, t) ==
    IF Len(input) >= Len(t) /\ Take(input, Len(t)) = t
    THEN Ok(Drop(input, Len(t)), t)
    ELSE Err

\* delimited(open, is_not(close), char(close)), after open and the body.
DelimitedClose(body, close) ==
    IF body.ok /\ tag(body.rest, <<close>>).ok
    THEN Ok(Drop(body.rest, 1), body.out)
    ELSE Err

\* delimited(tag(open), is_not(close), char(close)).
delimited(input, open, close) ==
    IF tag(input, open).ok
    THEN DelimitedClose(is_not(Drop(input, Len(open)), {close}), close)
    ELSE Err

\* alt: the first parser that succeeds.
OrElse(r1, r2) == IF r1.ok THEN r1 ELSE r2

(***************************************************************************)
(* The translation of a pattern part                                       *)
(***************************************************************************)

wrap_with(s, pre, post) == pre \o s \o post

\* s.replace: every comma becomes a vertical bar.
ReplaceComma(s) == [i \in 1..Len(s) |-> IF s[i] = "," THEN "|" ELSE s[i]]

map_alternative(s) == wrap_with(ReplaceComma(s), <<"(">>, <<")">>)

map_wildcard(s) == <<"\\", "w", "*">>

map_question_mark(s) == <<"\\", "w", "?">>

\* The .map(..) of the rules of parse_pattern_part.
MapAlternative(r) == IF r.ok THEN Ok(r.rest, map_alternative(r.out)) ELSE Err

MapNegated(r) == IF r.ok THEN Ok(r.rest, wrap_with(r.out, <<"[", "^">>, <<"]">>)) ELSE Err

MapRange(r) == IF r.ok THEN Ok(r.rest, wrap_with(r.out, <<"[">>, <<"]">>)) ELSE Err

MapWildcard(r) == IF r.ok THEN Ok(r.rest, map_wildcard(r.out)) ELSE Err

MapQuestionMark(r) == IF r.ok THEN Ok(r.rest, map_question_mark(r.out)) ELSE Err

\* The alt((..)) of parse_pattern_part: the first rule that applies.
PatternRule(input) ==
    OrElse(MapAlternative(delimited(input, <<"{">>, "}")),
    OrElse(MapNegated(delimited(input, <<"[", "!">>, "]")),
    OrElse(MapRange(delimited(input, <<"[">>, "]")),
    OrElse(MapWildcard(tag(input, <<"*">>)),
    OrElse(MapQuestionMark(tag(input, <<"?">>)),
           is_not(input, {"[", "{"}))))))

RECURSIVE ManyRules(_, _, _)
RECURSIVE ManyRulesStep(_, _, _, _)

\* many1(alt(..)) with n results in acc: it stops at the first error and
\* returns what it has, with the input left there; no result is an error.
ManyRules(input, acc, n) == ManyRulesStep(PatternRule(input), input, acc, n)

ManyRulesStep(r, input, acc, n) ==
    IF r.ok THEN ManyRules(r.rest, acc \o r.out, n + 1)
    ELSE IF n = 0 THEN Err
    ELSE Ok(input, acc)

\* many1(alt(..)) with the parts concatenated.
parse_pattern_part(input) == ManyRules(input, <<>>, 0)

\* preceded(char(/), take_till1(stop))
SlashPart(input, stop) ==
    IF tag(input, <<"/">>).ok THEN take_till1(Drop(input, 1), stop) ELSE Err

parse_address_part(input) == SlashPart(input, AddressStop)

parse_address_pattern_part(input) == SlashPart(input, PatternStop)

\* The second parser of map_parser: what it leaves of the part is dropped,
\* and the input goes on after the part.
MapParserInner(inner, rest) == IF inner.ok THEN Ok(rest, inner.out) ELSE Err

MapParser(part) ==
    IF part.ok THEN MapParserInner(parse_pattern_part(part.out), part.rest) ELSE Err

\* map_parser(parse_address_pattern_part, parse_pattern_part)
PatternPart(input) == MapParser(parse_address_pattern_part(input))

RECURSIVE ManyPatternParts(_, _)
RECURSIVE ManyPatternPartsStep(_, _, _)

\* many1(map_parser(..))
ManyPatternParts(input, acc) == ManyPatternPartsStep(PatternPart(input), input, acc)

ManyPatternPartsStep(r, input, acc) ==
    IF r.ok THEN ManyPatternParts(r.rest, Append(acc, r.out))
    ELSE IF acc = <<>> THEN Err
    ELSE Ok(input, acc)

RECURSIVE ManyAddressParts(_, _)
RECURSIVE ManyAddressPartsStep(_, _, _)

\* many1(parse_address_part)
ManyAddressParts(input, acc) ==
    ManyAddressPartsStep(parse_address_part(input), input, acc)

ManyAddressPartsStep(r, input, acc) ==
    IF r.ok THEN ManyAddressParts(r.rest, Append(acc, r.out))
    ELSE IF acc = <<>> THEN Err
    ELSE Ok(input, acc)

\* all_consuming: nothing of the input is left.
all_consuming(r) == IF r.ok /\ r.rest = <<>> THEN r ELSE Err

\* all_consuming(many1(map_parser(..))) of parse_address_pattern.
PatternParts(input) == all_consuming(ManyPatternParts(input, <<>>))

\* all_consuming(many1(parse_address_part)) of match_message.
AddressParts(input) == all_consuming(ManyAddressParts(input, <<>>))

(***************************************************************************)
(* Regular expressions: the syntax Regex::new accepts and the search of    *)
(* Regex::is_match, for the regular expressions the compiler can build.    *)
(* A parse result is [ok, node, pos]; a class is the set of its codes.     *)
(***************************************************************************)

AllCodes == 0..127

WordCodes == {n \in AllCodes : \E r \in WordRanges : r[1] <= n /\ n <= r[2]}

ReErr == [ok |-> FALSE, node |-> [t |-> "empty"], pos |-> 0]

ReOk(node, pos) == [ok |-> TRUE, node |-> node, pos |-> pos]

At(re, i) == IF i >= 1 /\ i <= Len(re) THEN re[i] ELSE "end"

RECURSIVE ClassItems(_, _, _)
RECURSIVE ClassBody(_, _)
RECURSIVE ClassNested(_, _, _)

\* The class with a set operator applied: acc op rhs.
ClassOperator(op, acc, rhs) ==
    IF ~rhs.ok THEN ReErr
    ELSE ReOk(CASE op = "-" -> acc \ rhs.node
                [] op = "&" -> acc \cap rhs.node
                [] OTHER -> (acc \ rhs.node) \cup (rhs.node \ acc),
              rhs.pos)

\* The items of a bracketed class from position i, added to acc, up to the
\* closing bracket: single characters, ranges lo-hi (lo <= hi), \w, nested
\* classes, and the set operators -- && ~~ applied to what follows them.
ClassItems(re, i, acc) ==
    IF At(re, i) = "end" THEN ReErr
    ELSE IF At(re, i) = "]" THEN ReOk(acc, i + 1)
    ELSE IF At(re, i) = "[" THEN ClassNested(re, ClassBody(re, i + 1), acc)
    ELSE IF At(re, i) = "\\" THEN
        IF At(re, i + 1) = "w" THEN ClassItems(re, i + 2, acc \cup WordCodes)
        ELSE IF At(re, i + 1) # "end" /\ ~IsWord(At(re, i + 1))
             THEN ClassItems(re, i + 2, acc \cup {Code(At(re, i + 1))})
        ELSE ReErr
    ELSE IF At(re, i) \in {"-", "&", "~"} /\ At(re, i + 1) = At(re, i)
         THEN ClassOperator(At(re, i), acc, ClassItems(re, i + 2, {}))
    ELSE IF At(re, i + 1) = "-" /\ At(re, i + 2) \notin {"]", "-", "end"} THEN
        IF Code(At(re, i)) > Code(At(re, i + 2)) THEN ReErr
        ELSE ClassItems(re, i + 3, acc \cup (Code(At(re, i))..Code(At(re, i + 2))))
    ELSE ClassItems(re, i + 1, acc \cup {Code(At(re, i))})

\* The items after a nested class.
ClassNested(re, inner, acc) ==
    IF inner.ok THEN ClassItems(re, inner.pos, acc \cup inner.node) ELSE ReErr

\* The number of hyphens from position i on.
Hyphens(re, i) ==
    CHOOSE k \in 0..Len(re) :
        /\ At(re, i + k) # "-"
        /\ \A j \in 0..(k - 1) : At(re, i + j) = "-"

\* The class of the items, negated or not.
ClassNegate(neg, items) ==
    IF ~items.ok THEN ReErr
    ELSE ReOk(IF neg THEN AllCodes \ items.node ELSE items.node, items.pos)

\* The first items of a class, from position i: leading hyphens are
\* literal, and a closing bracket that comes first is literal.
ClassLeading(re, i, dashes) ==
    IF dashes > 0 THEN ClassItems(re, i + dashes, {Code("-")})
    ELSE IF At(re, i) = "]" THEN ClassItems(re, i + 1, {Code("]")})
    ELSE ClassItems(re, i, {})

\* The inside of a bracketed class, i after the opening bracket: a leading
\* ^ negates.
ClassBody(re, i) ==
    IF At(re, i) = "^"
    THEN ClassNegate(TRUE, ClassLeading(re, i + 1, Hyphens(re, i + 1)))
    ELSE ClassNegate(FALSE, ClassLeading(re, i, Hyphens(re, i)))

\* The class as a node.
ClassNode(body) ==
    IF body.ok THEN ReOk([t |-> "set", codes |-> body.node], body.pos) ELSE ReErr

\* A bracketed class, i at the opening bracket.
ReClass(re, i) == ClassNode(ClassBody(re, i + 1))

\* The repetition operators after an atom: * ? +, each possibly followed by
\* the ? that makes it lazy (the same language for is_match).
RECURSIVE RePostfix(_, _, _)
RePostfix(re, node, i) ==
    IF At(re, i) \notin {"*", "?", "+"} THEN ReOk(node, i)
    ELSE RePostfix(re,
                   [t |-> CASE At(re, i) = "*" -> "star"
                            [] At(re, i) = "?" -> "opt"
                            [] OTHER -> "plus",
                    e |-> node],
                   IF At(re, i + 1) = "?" THEN i + 2 ELSE i + 1)

RECURSIVE ReAlternation(_, _)
RECURSIVE ReConcat(_, _)

\* The closing parenthesis of a group.
ReGroupClose(re, inner) ==
    IF ~inner.ok THEN ReErr
    ELSE IF At(re, inner.pos) # ")" THEN ReErr
    ELSE ReOk(inner.node, inner.pos + 1)

\* One atom: a group, a class, an escape, an assertion or a literal.  An
\* opening brace starts a counted repetition, which no regular expression
\* of the compiler completes; (? starts a flag group, an error for every
\* character but the flag letters i m s U u x and : P.
ReAtom(re, i) ==
    IF At(re, i) = "(" THEN
        IF At(re, i + 1) = "?" THEN ReErr
        ELSE ReGroupClose(re, ReAlternation(re, i + 1))
    ELSE IF At(re, i) = "[" THEN ReClass(re, i)
    ELSE IF At(re, i) = "\\" THEN
        IF At(re, i + 1) = "w" THEN ReOk([t |-> "set", codes |-> WordCodes], i + 2)
        ELSE IF At(re, i + 1) # "end" /\ ~IsWord(At(re, i + 1))
             THEN ReOk([t |-> "char", c |-> At(re, i + 1)], i + 2)
        ELSE ReErr
    ELSE IF At(re, i) = "." THEN ReOk([t |-> "set", codes |-> AllCodes \ {10}], i + 1)
    ELSE IF At(re, i) = "^" THEN ReOk([t |-> "start"], i + 1)
    ELSE IF At(re, i) = "$" THEN ReOk([t |-> "finish"], i + 1)
    ELSE IF At(re, i) \in {"*", "?", "+", "{", "end"} THEN ReErr
    ELSE ReOk([t |-> "char", c |-> At(re, i)], i + 1)

\* The concatenation of a repeated atom and what follows it.
ReCat(rep, tail) ==
    IF ~tail.ok THEN ReErr
    ELSE ReOk([t |-> "cat", l |-> rep.node, r |-> tail.node], tail.pos)

ReConcatTail(re, rep) == ReCat(rep, ReConcat(re, rep.pos))

ReRepeat(re, atom) ==
    IF atom.ok THEN ReConcatTail(re, RePostfix(re, atom.node, atom.pos)) ELSE ReErr

\* A concatenation, up to a vertical bar, a closing parenthesis or the end.
ReConcat(re, i) ==
    IF At(re, i) \in {"|", ")", "end"} THEN ReOk([t |-> "empty"], i)
    ELSE ReRepeat(re, ReAtom(re, i))

ReAlt(left, right) ==
    IF ~right.ok THEN ReErr
    ELSE ReOk([t |-> "alt", l |-> left.node, r |-> right.node], right.pos)

ReAlternationTail(re, left) ==
    IF ~left.ok THEN ReErr
    ELSE IF At(re, left.pos) # "|" THEN left
    ELSE ReAlt(left, ReAlternation(re, left.pos + 1))

\* An alternation of concatenations.
ReAlternation(re, i) == ReAlternationTail(re, ReConcat(re, i))

\* The whole string is one alternation.
ReWhole(re, r) == IF r.ok /\ r.pos = Len(re) + 1 THEN r ELSE ReErr

\* Regex::new
RegexNew(re) == ReWhole(re, ReAlternation(re, 1))

RECURSIVE Ends(_, _, _)
RECURSIVE StarEnds(_, _, _)
RECURSIVE StarStep(_, _, _, _)

\* The positions at which a match of node that starts at position i of s
\* can end (position j: the match is s[i..j-1]).
Ends(node, s, i) ==
    CASE node.t = "empty" -> {i}
      [] node.t = "char" -> IF i <= Len(s) /\ s[i] = node.c THEN {i + 1} ELSE {}
      [] node.t = "set" -> IF i <= Len(s) /\ Code(s[i]) \in node.codes THEN {i + 1} ELSE {}
      [] node.t = "start" -> IF i = 1 THEN {i} ELSE {}
      [] node.t = "finish" -> IF i = Len(s) + 1 THEN {i} ELSE {}
      [] node.t = "cat" -> UNION {Ends(node.r, s, j) : j \in Ends(node.l, s, i)}
      [] node.t = "alt" -> Ends(node.l, s, i) \cup Ends(node.r, s, i)
      [] node.t = "opt" -> {i} \cup Ends(node.e, s, i)
      [] node.t = "star" -> StarEnds(node.e, s, {i})
      [] node.t = "plus" -> StarEnds(node.e, s, Ends(node.e, s, i))

\* The positions reached from the positions in from by any number of
\* matches of e.
StarEnds(e, s, from) == StarStep(e, s, from, from \cup UNION {Ends(e, s, j) : j \in from})

StarStep(e, s, from, more) == IF more = from THEN from ELSE StarEnds(e, s, more)

\* A match of the node that starts anywhere in s and ends anywhere.
Search(node, s) == \E i \in 1..(Len(s) + 1) : Ends(node, s, i) # {}

\* Regex::is_match
IsMatch(re, s) == Search(RegexNew(re).node, s)

(***************************************************************************)
(* Matcher                                                                 *)
(***************************************************************************)

NoMatcher == [kind |-> "none", res |-> <<>>]

\* The end of parse_address_pattern: a parse error is BadAddressPattern,
\* and each part is compiled by Regex::new.
CompileParts(parts) ==
    IF ~parts.ok THEN [kind |-> "BadAddressPattern", res |-> <<>>]
    ELSE IF \E i \in 1..Len(parts.out) : ~RegexNew(parts.out[i]).ok
         THEN [kind |-> "RegexError", res |-> <<>>]
    ELSE [kind |-> "Ok", res |-> parts.out]

parse_address_pattern(input) == CompileParts(PatternParts(input))

\* Matcher::new: Ok(Matcher { res }) or the error of parse_address_pattern.
Matcher_new(p) == parse_address_pattern(p)

\* match_message without the comparison of the lengths: zip() stops at the
\* shorter of the two.
MatchPartsNoLength(res, parts) ==
    IF ~parts.ok THEN "panic"
    ELSE IF \A i \in 1..Len(res) : i <= Len(parts.out) => IsMatch(res[i], parts.out[i])
         THEN "true"
    ELSE "false"

\* The body of match_message after the address is parsed: "panic" is the
\* expect() on an address that does not parse.
MatchParts(res, parts) ==
    IF ~parts.ok THEN "panic"
    ELSE IF Len(parts.out) # Len(res) THEN "false"
    ELSE IF \A i \in 1..Len(res) : IsMatch(res[i], parts.out[i]) THEN "true"
    ELSE "false"

\* Matcher::match_message on the address of the message.
match_message(res, a) == MatchParts(res, AddressParts(a))

\* A match_message that takes the regular expressions out of the matcher.
ResDrained(res) == <<>>

\* The regular expressions of the matcher after match_message(&self, ..),
\* which borrows them with iter().
ResAfterMatch(res) == res

(***************************************************************************)
(* Inputs                                                                  *)
(***************************************************************************)

\* The longest pattern over StructChars.
MaxPatLen == 4

\* The longest address over AddrChars.
MaxAddrLen == 3

\* The longest literal run, class content and alternative option of a
\* one-part pattern.
MaxLit == 2

\* The longest address part matched against a one-part pattern.
MaxSeg == 3

\* The number of match_message calls of a run of SpecCalls.
MaxCalls == 3

\* All strings over chars of length lo..hi.
Strings(chars, lo, hi) == UNION {[1..k -> chars] : k \in lo..hi}

\* Patterns of every structure: separators, whitespace, a literal, and the
\* delimiters of alternatives and classes.
StructChars == {"/", " ", "a", "{", "}", "[", "]"}

StructPatterns == Strings(StructChars, 0, MaxPatLen)

IsStructPattern(p) == Len(p) <= MaxPatLen /\ \A i \in 1..Len(p) : p[i] \in StructChars

\* The addresses sent to them: every string of separators and literals.
PlainAddresses == Strings({"/", "a"}, 0, MaxPatLen)

\* Addresses of every structure: the separator, a word character, a blank,
\* the reserved characters, and a character that is none of these.
AddrChars == {"/", "a", " ", "#", "*", ",", "?", "[", "]", "{", "}", "-"}

AddrStrings == Strings(AddrChars, 0, MaxAddrLen)

\* The patterns they are sent to.
ProbePatterns == { <<"/", "a">>, <<"/", "a", "/", "a">> }

\* One-part patterns, one family per rule of the pattern language.
WordChars == {"a", "b"}

Words(lo, hi) == Strings(WordChars, lo, hi)

LiteralSegs == Strings({"a", "b", ".", "-"}, 1, MaxLit)

WildcardSegs == {l1 \o <<"*">> \o l2 : l1 \in Words(0, MaxLit), l2 \in Words(0, MaxLit)}

QuestionSegs == {l \o <<"?">> : l \in Words(0, MaxLit)}

ClassSpecs ==
    Strings({"a", "b", "^", "?", "*"}, 1, MaxLit)
        \cup {<<lo, "-", hi>> : lo \in {"a", "b", "X"}, hi \in {"a", "b", "X"}}

Affixes == {<<>>, <<"a">>}

ClassSegs ==
    {p \o open \o s \o <<"]">> \o q :
        p \in Affixes, q \in Affixes, s \in ClassSpecs, open \in {<<"[">>, <<"[", "!">>}}

AlternativeSegs ==
    {<<"{">> \o a1 \o <<"}">> : a1 \in Words(1, MaxLit)}
        \cup {<<"{">> \o a1 \o <<",">> \o a2 \o <<"}">> :
                  a1 \in Words(1, MaxLit), a2 \in Words(1, MaxLit)}

SegmentPatterns ==
    {<<"/">> \o seg :
        seg \in LiteralSegs \cup WildcardSegs \cup QuestionSegs \cup ClassSegs \cup AlternativeSegs}

\* The addresses sent to them: one part of word and non-word characters.
SegChars == {"a", "b", "-"}

SegAddresses == {<<"/">> \o seg : seg \in Strings(SegChars, 1, MaxSeg)}

\* The patterns and addresses of tests/address_test.rs and of the examples
\* in the documentation of Matcher, and the pattern /a*b with /aXXbYYb.
TestPattern ==
    << "/", "o", "s", "c", "i", "l", "l", "a", "t", "o", "r", "/", "[", "0",
       "-", "9", "]", "/", "*", "/", "p", "r", "e", "[", "!", "1", "2", "3",
       "4", "?", "*", "]", "p", "o", "s", "t", "/", "{", "f", "r", "e", "q",
       "u", "e", "n", "c", "y", ",", "p", "h", "a", "s", "e", "}", "/", "x",
       "?" >>

DocPattern ==
    << "/", "o", "s", "c", "i", "l", "l", "a", "t", "o", "r", "/", "[", "0",
       "-", "9", "]", "/", "{", "f", "r", "e", "q", "u", "e", "n", "c", "y",
       ",", "p", "h", "a", "s", "e", "}" >>

TestAddresses ==
    { << "/", "o", "s", "c", "i", "l", "l", "a", "t", "o", "r", "/", "1", "/",
         "s", "o", "m", "e", "t", "h", "i", "n", "g", "/", "p", "r", "e", "X",
         "p", "o", "s", "t", "/", "p", "h", "a", "s", "e", "/", "x", "y" >>,
      << "/", "o", "s", "c", "i", "l", "l", "a", "t", "o", "r", "/", "1", "/",
         "s", "o", "m", "e", "t", "h", "i", "n", "g", "/", "p", "r", "e", "1",
         "p", "o", "s", "t", "/", "p", "h", "a", "s", "e", "/", "x", "y" >>,
      << "/", "o", "s", "c", "i", "l", "l", "a", "t", "o", "r", "/", "1", "/",
         "f", "r", "e", "q", "u", "e", "n", "c", "y" >>,
      << "/", "o", "s", "c", "i", "l", "l", "a", "t", "o", "r", "/", "8", "/",
         "p", "h", "a", "s", "e" >>,
      << "/", "o", "s", "c", "i", "l", "l", "a", "t", "o", "r", "/", "4", "/",
         "d", "e", "t", "u", "n", "e" >>,
      << "/", "a", "X", "X", "b", "Y", "Y", "b" >> }

BacktrackPattern == <<"/", "a", "*", "b">>

ExamplePatterns == {TestPattern, DocPattern, BacktrackPattern}

Patterns == StructPatterns \cup SegmentPatterns \cup ExamplePatterns

\* The addresses sent to a matcher of pattern p.
AddressesFor(p) ==
    (IF IsStructPattern(p) THEN PlainAddresses ELSE {})
        \cup (IF p \in ProbePatterns THEN AddrStrings ELSE {})
        \cup (IF p \in SegmentPatterns THEN SegAddresses ELSE {})
        \cup (IF p \in ExamplePatterns THEN TestAddresses ELSE {})

(***************************************************************************)
(* One matcher, one call                                                   *)
(***************************************************************************)

Init ==
    /\ pattern \in Patterns
    /\ addr = <<>>
    /\ matcher = NoMatcher
    /\ matcher2 = NoMatcher
    /\ result = "none"
    /\ calls = <<>>

\* let matcher = Matcher::new(pattern)
New ==
    /\ matcher.kind = "none"
    /\ matcher' = Matcher_new(pattern)
    /\ UNCHANGED <<pattern, addr, matcher2, result, calls>>

\* matcher.match_message(&OscMessage { addr: a, .. }), the one call of the run.
MatchMessage ==
    /\ matcher.kind = "Ok"
    /\ result = "none"
    /\ \E a \in AddressesFor(pattern) :
        /\ addr' = a
        /\ result' = match_message(matcher.res, a)
    /\ matcher' = [matcher EXCEPT !.res = ResAfterMatch(matcher.res)]
    /\ UNCHANGED <<pattern, matcher2, calls>>

Next == New \/ MatchMessage

Spec == Init /\ [][Next]_vars

(***************************************************************************)
(* Two matchers of one pattern, several calls                              *)
(***************************************************************************)

CallPatterns ==
    { <<"/", "a">>,
      <<"/", "a", "*", "b">>,
      <<"/", "?">>,
      <<"/", "[", "!", "a", "]">>,
      <<"/", "{", "a", ",", "b", "}">>,
      <<"/", "a", "/", "a">>,
      <<"/", "a", "{">>,
      <<"/", "[">> }

CallAddresses ==
    { <<"/", "a">>, <<"/", "b">>, <<"/", "a", "b">>, <<"/", "-">>, <<"/", "a", "/", "a">> }

InitCalls ==
    /\ pattern \in CallPatterns
    /\ addr = <<>>
    /\ matcher = NoMatcher
    /\ matcher2 = NoMatcher
    /\ result = "none"
    /\ calls = <<>>

\* let matcher2 = Matcher::new(pattern): the same pattern compiled again.
NewSecond ==
    /\ matcher2.kind = "none"
    /\ matcher2' = Matcher_new(pattern)
    /\ UNCHANGED <<pattern, addr, matcher, result, calls>>

\* matcher.match_message(..), recorded in calls.
CallFirst ==
    /\ matcher.kind = "Ok"
    /\ Len(calls) < MaxCalls
    /\ \E a \in CallAddresses :
        /\ addr' = a
        /\ result' = match_message(matcher.res, a)
        /\ calls' = Append(calls, [on |-> 1, addr |-> a, result |-> match_message(matcher.res, a)])
    /\ matcher' = [matcher EXCEPT !.res = ResAfterMatch(matcher.res)]
    /\ UNCHANGED <<pattern, matcher2>>

\* matcher2.match_message(..), recorded in calls.
CallSecond ==
    /\ matcher2.kind = "Ok"
    /\ Len(calls) < MaxCalls
    /\ \E a \in CallAddresses :
        /\ addr' = a
        /\ result' = match_message(matcher2.res, a)
        /\ calls' = Append(calls, [on |-> 2, addr |-> a, result |-> match_message(matcher2.res, a)])
    /\ matcher2' = [matcher2 EXCEPT !.res = ResAfterMatch(matcher2.res)]
    /\ UNCHANGED <<pattern, matcher>>

NextCalls == New \/ NewSecond \/ CallFirst \/ CallSecond

SpecCalls == InitCalls /\ [][NextCalls]_vars

(***************************************************************************)
(* The properties                                                          *)
(***************************************************************************)

Whitespace == {" ", "\t", "\r", "\n"}

Reserved == {"#", "*", ",", "/", "?", "[", "]", "{", "}"}

\* The number of parts of a pattern or an address: one per separator.
SlashCount(s) == Cardinality({i \in 1..Len(s) : s[i] = "/"})

\* s starts with a separator, has no empty part, and no part has a
\* character of excluded.
WellFormed(s, excluded) ==
    /\ Len(s) > 0
    /\ s[1] = "/"
    /\ s[Len(s)] # "/"
    /\ \A i \in 1..(Len(s) - 1) : ~(s[i] = "/" /\ s[i + 1] = "/")
    /\ \A i \in 1..Len(s) : s[i] # "/" => s[i] \notin excluded

\* A valid address: no reserved character and no whitespace in a part.
ValidAddress(a) == WellFormed(a, Reserved \cup Whitespace)

\* A valid address with one part.
OnePart(a) == ValidAddress(a) /\ SlashCount(a) = 1

IsBool(r) == r \in {"true", "false"}

\* C1: a valid address whose number of parts differs from the number of
\* parts of the pattern does not match.
C1_PartCountRejects ==
    (result # "none" /\ ValidAddress(addr) /\ SlashCount(addr) # SlashCount(pattern))
        => result = "false"

\* An address that continues the pattern with one more part is rejected.
C1_Witness ==
    /\ result = "false"
    /\ ValidAddress(addr)
    /\ SlashCount(addr) = SlashCount(pattern) + 1
    /\ Len(addr) > Len(pattern)
    /\ Take(addr, Len(pattern)) = pattern

\* A malformed pattern: empty, no leading separator, an empty part (so a
\* trailing separator, and the pattern / of no part), or whitespace.
MalformedPattern(p) == ~WellFormed(p, Whitespace)

\* C2: Matcher::new of a malformed pattern fails with BadAddressPattern.
C2_MalformedRejected ==
    (matcher.kind # "none" /\ MalformedPattern(pattern)) => matcher.kind = "BadAddressPattern"

\* A pattern rejected for nothing but the whitespace in a part.
C2_Witness ==
    /\ matcher.kind = "BadAddressPattern"
    /\ WellFormed(pattern, {})
    /\ \A i \in 1..Len(pattern) : IsWord(pattern[i]) \/ pattern[i] \in Whitespace \cup {"/"}
    /\ \E i \in 2..(Len(pattern) - 1) :
        /\ pattern[i] \in Whitespace
        /\ pattern[i - 1] \notin Whitespace \cup {"/"}
        /\ pattern[i + 1] \notin Whitespace \cup {"/"}

\* Position i of p has the first brace or bracket of its part, so that it
\* opens an alternative or a class whatever comes before it in the part.
FirstOpening(p, i) ==
    /\ p[i] \in {"{", "["}
    /\ \A j \in 1..(i - 1) :
        p[j] \in {"{", "["} => \E k \in (j + 1)..(i - 1) : p[k] \in Whitespace \cup {"/"}

\* The part of position i has the character close after position i.
ClosedLater(p, i, close) ==
    \E j \in (i + 1)..Len(p) :
        /\ p[j] = close
        /\ \A k \in i..j : p[k] \notin Whitespace \cup {"/"}

\* Some part of p opens an alternative or a class that it does not close.
HasUnterminated(p) ==
    \E i \in 1..Len(p) :
        /\ FirstOpening(p, i)
        /\ ~ClosedLater(p, i, IF p[i] = "{" THEN "}" ELSE "]")

\* C3: Matcher::new of a pattern with a part that opens an alternative or a
\* class and does not close it fails with BadAddressPattern, wherever in
\* the part the brace or the bracket is (here: the first one of its part).
C3_UnterminatedRejected ==
    (matcher.kind # "none" /\ HasUnterminated(pattern)) => matcher.kind = "BadAddressPattern"

\* A pattern of literal parts: well formed, and none of * ? [ ] { }.
IsLiteralPattern(p) == WellFormed(p, Whitespace \cup {"*", "?", "[", "]", "{", "}"})

\* C4: a pattern of literal parts compiles, and a valid address matches it
\* if and only if it is equal to the pattern.
C4_LiteralExact ==
    /\ (matcher.kind # "none" /\ IsLiteralPattern(pattern)) => matcher.kind = "Ok"
    /\ (IsBool(result) /\ IsLiteralPattern(pattern) /\ ValidAddress(addr))
           => (result = "true" <=> addr = pattern)

\* A pattern of one part L1*L2, L1 and L2 runs of word characters.
IsWildcardPattern(p) ==
    /\ Len(p) >= 2
    /\ p[1] = "/"
    /\ Cardinality({k \in 2..Len(p) : p[k] = "*"}) = 1
    /\ \A k \in 2..Len(p) : p[k] # "*" => IsWord(p[k])

\* The part of a is L1, then word characters, then L2.
WildcardExpected(p, a) ==
    LET k == CHOOSE k \in 2..Len(p) : p[k] = "*"
        l1 == SubSeq(p, 2, k - 1)
        l2 == SubSeq(p, k + 1, Len(p))
        part == Drop(a, 1)
    IN  /\ Len(part) >= Len(l1) + Len(l2)
        /\ Take(part, Len(l1)) = l1
        /\ Drop(part, Len(part) - Len(l2)) = l2
        /\ \A i \in (Len(l1) + 1)..(Len(part) - Len(l2)) : IsWord(part[i])

\* C5: the pattern part L1*L2 matches an address part if and only if the
\* part is L1, then zero or more word characters, then L2.
C5_WildcardExact ==
    (IsBool(result) /\ IsWildcardPattern(pattern) /\ OnePart(addr))
        => (result = "true" <=> WildcardExpected(pattern, addr))

\* A pattern of one part L?, L a run of word characters or empty.
IsQuestionPattern(p) ==
    /\ Len(p) >= 2
    /\ p[1] = "/"
    /\ p[Len(p)] = "?"
    /\ \A k \in 2..(Len(p) - 1) : IsWord(p[k])

\* The part of a is L and one word character.
QuestionExpected(p, a) ==
    /\ Len(a) = Len(p)
    /\ Take(a, Len(p) - 1) = Take(p, Len(p) - 1)
    /\ IsWord(a[Len(a)])

\* C6: the pattern part L? matches an address part if and only if the
\* part is L followed by exactly one word character.
C6_QuestionExact ==
    (IsBool(result) /\ IsQuestionPattern(pattern) /\ OnePart(addr))
        => (result = "true" <=> QuestionExpected(pattern, addr))

\* The positions of the one opening and the one closing bracket of p.
OpenAt(p) == CHOOSE k \in 1..Len(p) : p[k] = "["

CloseAt(p) == CHOOSE k \in 1..Len(p) : p[k] = "]"

\* A class whose content starts with ! and goes on is negated.
IsNegated(p) == p[OpenAt(p) + 1] = "!" /\ CloseAt(p) > OpenAt(p) + 2

ClassContent(p) ==
    SubSeq(p, IF IsNegated(p) THEN OpenAt(p) + 2 ELSE OpenAt(p) + 1, CloseAt(p) - 1)

\* A pattern of one part P[S]Q or P[!S]Q, P and Q runs of word characters.
IsClassPattern(p) ==
    /\ Len(p) >= 4
    /\ p[1] = "/"
    /\ Cardinality({k \in 2..Len(p) : p[k] = "["}) = 1
    /\ Cardinality({k \in 2..Len(p) : p[k] = "]"}) = 1
    /\ CloseAt(p) > OpenAt(p) + 1
    /\ \A k \in 2..Len(p) : (k < OpenAt(p) \/ k > CloseAt(p)) => IsWord(p[k])
    /\ \A k \in OpenAt(p)..CloseAt(p) : p[k] \notin Whitespace \cup {"/"}

\* c is in the set S: it is one of its characters (a hyphen only as the
\* first or the last), or it is in one of its ranges lo-hi.
InClass(c, set) ==
    \/ \E i \in 1..Len(set) : set[i] = c /\ (c = "-" => i \in {1, Len(set)})
    \/ \E i \in 1..(Len(set) - 2) :
        /\ set[i + 1] = "-"
        /\ Code(set[i]) <= Code(c)
        /\ Code(c) <= Code(set[i + 2])

\* The address is one part: P, one character, Q.
ClassAddress(p, a) ==
    /\ OnePart(a)
    /\ Len(a) = OpenAt(p) + (Len(p) - CloseAt(p))
    /\ Take(a, OpenAt(p) - 1) = Take(p, OpenAt(p) - 1)
    /\ Drop(a, OpenAt(p)) = Drop(p, CloseAt(p))

\* C7: the pattern part P[S]Q matches the address part P c Q if and only
\* if c is in S, and P[!S]Q if and only if c is not in S.
C7_ClassExact ==
    (IsBool(result) /\ IsClassPattern(pattern) /\ ClassAddress(pattern, addr))
        => (result = "true" <=>
                (InClass(addr[OpenAt(pattern)], ClassContent(pattern)) # IsNegated(pattern)))

\* A pattern of one part {a1,...,an}, the options non-empty runs of word
\* characters.
IsAlternativePattern(p) ==
    /\ Len(p) >= 4
    /\ p[1] = "/"
    /\ p[2] = "{"
    /\ p[Len(p)] = "}"
    /\ \A k \in 3..(Len(p) - 1) : IsWord(p[k]) \/ p[k] = ","
    /\ \A k \in 2..(Len(p) - 1) : p[k] = "," => IsWord(p[k - 1]) /\ IsWord(p[k + 1])

\* The options of the alternative of p.
Options(p) ==
    {SubSeq(p, i, j) : <<i, j>> \in
        {ij \in (3..(Len(p) - 1)) \X (3..(Len(p) - 1)) :
            /\ ij[1] <= ij[2]
            /\ p[ij[1] - 1] \in {"{", ","}
            /\ p[ij[2] + 1] \in {"}", ","}
            /\ \A k \in ij[1]..ij[2] : p[k] # ","}}

\* C8: the pattern part {a1,...,an} matches an address part if and only if
\* the part is equal to one of the options.
C8_AlternativeExact ==
    (IsBool(result) /\ IsAlternativePattern(pattern) /\ OnePart(addr))
        => (result = "true" <=> Drop(addr, 1) \in Options(pattern))

\* C9 as stated: match_message yields a boolean exactly for the addresses
\* that are non-empty, start with a separator, and have only non-empty
\* parts without reserved characters; every other character is allowed.
C9_ValidityAsStated ==
    result # "none" => (IsBool(result) <=> WellFormed(addr, Reserved))

\* C9, amended: match_message yields a boolean exactly for the addresses
\* that are non-empty, start with a separator, and have only non-empty
\* parts without reserved characters and without whitespace (space, tab,
\* carriage return, line feed); for every other address it panics.
C9_Validity ==
    result # "none" => (IsBool(result) <=> ValidAddress(addr))

\* The call panics on an address whose only fault is a blank after a word
\* character of a part.
C9_Witness ==
    /\ result = "panic"
    /\ WellFormed(addr, Reserved)
    /\ \E i \in 2..Len(addr) : addr[i] \in Whitespace /\ IsWord(addr[i - 1])

\* Any two calls with the same address, on either matcher, have the same
\* result.
CallsAgree ==
    \A i \in 1..Len(calls) : \A j \in 1..Len(calls) :
        calls[i].addr = calls[j].addr => calls[i].result = calls[j].result

\* The two matchers of the pattern are equal.
SameMatchers == (matcher.kind # "none" /\ matcher2.kind # "none") => matcher = matcher2

====
